---- MODULE Spec2Model ----
(***************************************************************************)
(* Model of utils/git/code-format-diff-apply.py (apply_patches) and of     *)
(* utils/git/code-format-helper.py (FormatHelper, the two adapters and     *)
(* FormatRunner).                                                          *)
(*                                                                         *)
(* Text is a sequence of atoms.  An atom is one character (Backtick, "\r", *)
(* "\n", "d", ...) or an indivisible piece of literal text that the        *)
(* programs only ever copy or compare as a whole (for instance the         *)
(* prefix "<!--LLVM CODE FORMAT COMMENT: " of the comment tag).  Python's  *)
(* str.replace, `in` and the two regular expressions are modelled on       *)
(* these sequences by what they compute.                                   *)
(*                                                                         *)
(* An optional value (Python's None or a value) is a sequence of length    *)
(* zero (None) or one.                                                     *)
(***************************************************************************)
EXTENDS Integers, Sequences, FiniteSets, TLC

VARIABLES
    tool,          \* which script this process runs
    env,           \* what each formatter reports on the code under review
    entry,         \* the function the invocation enters
    pc,            \* the statement the process is about to execute
    args,          \* the argparse namespace of the invocation
    comments,      \* the pull request's comments, oldest first (bodies)
    comments0,     \* the comments the pull request had before the first run
    gitLog,        \* the shell git commands executed so far in this process
    wc,            \* the local working copy and the pull request's head branch
    raised,        \* the exception that ended the process, or "none"
    status,        \* the process's exit status once it has ended, else -1
    diff,          \* apply_patches: m.group("DIFF"); FormatHelper.run: diff
    tmp,           \* content written to the NamedTemporaryFile
    changed_files, \* FormatRunner.changed_files
    formatters,    \* FormatRunner.formatters
    fmtIdx,        \* position of FormatRunner.run's for loop
    exit_code,     \* FormatRunner.run's exit_code
    self,          \* the adapter whose run method is executing
    run_args,      \* the object bound to FormatHelper.run's parameter args
    procLog,       \* formatter subprocesses run in this process
    apiLog,        \* comment mutations sent to the review service in this process
    found,         \* results of find_comment in this process
    returned       \* values returned by FormatHelper.run in this process

vars == <<tool, env, entry, pc, args, comments, comments0, gitLog, wc, raised, status, diff,
          tmp, changed_files, formatters, fmtIdx, exit_code, self, run_args,
          procLog, apiLog, found, returned>>

helperVars == <<comments0, changed_files, formatters, fmtIdx, exit_code, self, run_args,
                procLog, apiLog, found, returned>>

\* ---------------------------------------------------------------- bounds

\* A comment body handed to the diff-apply tool is built from at most
\* MaxSegs segments.
MaxSegs == 5

\* ------------------------------------------------------- text primitives

None == <<>>

Some(v) == <<v>>

\* Python truthiness of an optional string: None and "" are false.
Truthy(opt) == opt # None /\ opt[1] # <<>>

Range(s) == {s[k] : k \in 1..Len(s)}

RECURSIVE Cat(_)
Cat(ss) == IF ss = <<>> THEN <<>> ELSE Head(ss) \o Cat(Tail(ss))

\* p occurs in s at position i.
StartsAt(s, p, i) ==
    /\ i >= 1
    /\ i + Len(p) - 1 <= Len(s)
    /\ \A k \in 1..Len(p) : s[i + k - 1] = p[k]

\* Python's (p in s) for a non-empty p.
Contains(s, p) == \E i \in 1..Len(s) : StartsAt(s, p, i)

\* Python's str.replace: left to right, non-overlapping.
RECURSIVE Replace(_, _, _)
Replace(s, old, new) ==
    IF Len(s) < Len(old) THEN s
    ELSE IF StartsAt(s, old, 1)
         THEN new \o Replace(SubSeq(s, Len(old) + 1, Len(s)), old, new)
         ELSE <<s[1]>> \o Replace(Tail(s), old, new)

SetMin(S) == CHOOSE x \in S : \A y \in S : x <= y

SetMax(S) == CHOOSE x \in S : \A y \in S : x >= y

LF == <<"\n">>

CRLF == <<"\r", "\n">>

CR == <<"\r">>

\* ---------------------------------------------------- diff-apply: regex

FenceLen == 10

\* The backtick character.
Backtick == "BACKTICK"

Fence == [k \in 1..FenceLen |-> Backtick]

DiffWord == <<"d", "i", "f", "f">>

\* The search with a reluctant quantifier (.+?): it stops at the first
\* fence it can reach.
diff_pat_nongreedy(body) ==
    LET opener == Fence \o DiffWord
        ends(i) == {j \in (i + Len(opener) + 1)..Len(body) : StartsAt(body, Fence, j)}
        ok == {i \in 1..Len(body) : StartsAt(body, opener, i) /\ ends(i) # {}}
    IN  IF ok = {} THEN None
        ELSE LET i == SetMin(ok)
             IN  Some(SubSeq(body, i + Len(opener), SetMin(ends(i)) - 1))

\* re.search(diff_pat, body).group("DIFF"), or None.  The pattern is the
\* fence, the word diff, one or more characters of any kind (DOTALL) taken
\* greedily, and the fence: the match starts at the leftmost position from
\* which it can succeed and ends at the last fence it can reach.
diff_pat(body) ==
    LET opener == Fence \o DiffWord
        ends(i) == {j \in (i + Len(opener) + 1)..Len(body) : StartsAt(body, Fence, j)}
        ok == {i \in 1..Len(body) : StartsAt(body, opener, i) /\ ends(i) # {}}
    IN  IF ok = {} THEN None
        ELSE LET i == SetMin(ok)
             IN  Some(SubSeq(body, i + Len(opener), SetMax(ends(i)) - 1))

\* diff.replace(CRLF, LF).replace(CR, LF)
force_lf(text) == Replace(Replace(text, CRLF, LF), CR, LF)

\* ------------------------------------------------------------------ git

\* pr.head of the pull request, as the review service reports it.
pr == [head |-> [repo |-> [full_name |-> "fork/repo",
                           html_url |-> "https://github.com/fork/repo"],
                 ref |-> "feature"]]

TmpName == "/tmp/tmpfile"

\* What a git command that exited with rc does to the working copy w:
\* checkout switches branch; apply changes the files unless --check is
\* given (then it only tests whether the patch applies); add stages what
\* is changed; commit records what is staged; push publishes the commits.
GitEffect(argv, rc, w) ==
    IF rc # 0 THEN w
    ELSE IF argv[2] = "checkout" THEN [w EXCEPT !.branch = argv[3]]
    ELSE IF argv[2] = "apply"
         THEN IF "--check" \in Range(argv) THEN w ELSE [w EXCEPT !.patched = TRUE]
    ELSE IF argv[2] = "add" THEN [w EXCEPT !.staged = w.patched]
    ELSE IF argv[2] = "commit" THEN [w EXCEPT !.committed = w.staged]
    ELSE IF argv[2] = "push" THEN [w EXCEPT !.pushed = w.committed]
    ELSE w

CleanCopy == [branch |-> "base", patched |-> FALSE, staged |-> FALSE,
              committed |-> FALSE, pushed |-> FALSE]

ReturnCodes == {0, 1}

\* A shell step whose returncode is not tested.
AfterStep_ignore(rc, nxt) == nxt

\* if proc.returncode != 0: raise(...): the statement the process goes to
\* after a shell step that exited with rc.
AfterStep(rc, nxt) == IF rc # 0 THEN "raised" ELSE nxt

\* raise("text") raises TypeError, a str being no exception.
RaiseOfStr == "TypeError"

\* The label that follows label l in the statement order.
Following(order, l) ==
    LET k == CHOOSE k \in 1..Len(order) : order[k] = l
    IN  IF k = Len(order) THEN "end" ELSE order[k + 1]

\* ------------------------------------------------ diff-apply: the script

apply_patches_cmds ==
    [remote_cmd   |-> <<"git", "remote", "add", "pr", pr.head.repo.html_url>>,
     fetch_cmd    |-> <<"git", "fetch", "pr", pr.head.ref>>,
     checkout_cmd |-> <<"git", "checkout", pr.head.ref>>,
     apply_cmd    |-> <<"git", "apply", TmpName, "-v", "--check">>,
     add_cmd      |-> <<"git", "add", ".">>,
     commit_cmd   |-> <<"git", "commit", "-m", "Apply diff from comment">>,
     push_cmd     |-> <<"git", "push", "pr", pr.head.ref>>]

apply_patches_order ==
    <<"remote_cmd", "fetch_cmd", "checkout_cmd", "get_comment",
      "apply_cmd", "add_cmd", "commit_cmd", "push_cmd">>

\* One subprocess.run of apply_patches with its returncode test.  Before
\* git apply the diff is forced to LF line endings and written to tmp.
apply_patches_step ==
    /\ tool = "code-format-diff-apply"
    /\ pc \in DOMAIN apply_patches_cmds
    /\ \E rc \in ReturnCodes :
        LET argv == apply_patches_cmds[pc]
            nxt == AfterStep(rc, Following(apply_patches_order, pc))
        IN  /\ gitLog' = Append(gitLog, [argv |-> argv, rc |-> rc])
            /\ wc' = GitEffect(argv, rc, wc)
            /\ tmp' = IF pc = "apply_cmd" THEN Some(force_lf(diff[1])) ELSE tmp
            /\ pc' = nxt
            /\ raised' = IF nxt = "raised" THEN RaiseOfStr ELSE raised
            /\ status' = IF nxt = "raised" THEN 1 ELSE IF nxt = "end" THEN 0 ELSE status
    /\ UNCHANGED <<tool, env, entry, args, comments, diff>>
    /\ UNCHANGED helperVars

\* The search without the test of m: a comment without a diff block goes
\* on as an empty diff.
apply_patches_comment_unchecked ==
    /\ tool = "code-format-diff-apply"
    /\ pc = "get_comment"
    /\ LET m == diff_pat(comments[args.comment_id])
       IN  diff' = IF m = None THEN Some(<<>>) ELSE m
    /\ pc' = Following(apply_patches_order, pc)
    /\ UNCHANGED <<tool, env, entry, args, comments, gitLog, wc, tmp, raised, status>>
    /\ UNCHANGED helperVars

\* comment = pr.get_issue_comment(args.comment_id); m = re.search(...);
\* diff = m.group("DIFF"), or the raise when there is no match.
apply_patches_comment ==
    /\ tool = "code-format-diff-apply"
    /\ pc = "get_comment"
    /\ LET m == diff_pat(comments[args.comment_id])
       IN  IF m = None
           THEN /\ pc' = "raised"
                /\ raised' = RaiseOfStr
                /\ status' = 1
                /\ diff' = diff
           ELSE /\ pc' = Following(apply_patches_order, pc)
                /\ diff' = m
                /\ UNCHANGED <<raised, status>>
    /\ UNCHANGED <<tool, env, entry, args, comments, gitLog, wc, tmp>>
    /\ UNCHANGED helperVars

\* ------------------------------------------- format-helper: the adapters

TagPrefix == "<!--LLVM CODE FORMAT COMMENT: "

TagSuffix == "-->"

\* FormatHelper.COMMENT_TAG
COMMENT_TAG == <<TagPrefix, "{", "fmt", "}", TagSuffix>>

ClangFormatHelper ==
    [name |-> "clang-format",
     friendly_name |-> "C/C++ code formatter",
     exts |-> {".cpp", ".c", ".h", ".hpp", ".hxx", ".cxx"},
     excluded |-> {}]

DarkerFormatHelper ==
    [name |-> "darker",
     friendly_name |-> "Python code formatter",
     exts |-> {".py"},
     excluded |-> {}]

Adapter(name) == IF name = "darker" THEN DarkerFormatHelper ELSE ClangFormatHelper

ALL_FORMATTERS == <<"darker", "clang-format">>

\* self.comment_tag: COMMENT_TAG.replace("fmt", self.name)
comment_tag(name) == Replace(COMMENT_TAG, <<"fmt">>, <<name>>)

\* os.path.splitext of a path, a path being its root and its extension.
splitext(path) == <<path[1], path[2]>>

\* filter_changed_files of the adapter a, in the order of changed_files.
RECURSIVE filter_changed_files(_, _)
filter_changed_files(a, files) ==
    IF files = <<>> THEN <<>>
    ELSE LET path == Head(files)
             rest == filter_changed_files(a, Tail(files))
         IN  IF splitext(path)[2] \in a.exts /\ path \notin a.excluded
             THEN <<path>> \o rest
             ELSE rest

\* " ".join(words), each word a text.
RECURSIVE Join(_)
Join(words) ==
    IF words = <<>> THEN <<>>
    ELSE IF Len(words) = 1 THEN words[1]
    ELSE words[1] \o <<" ">> \o Join(Tail(words))

\* cf_cmd and darker_cmd
format_cmd(a, a_args, files) ==
    IF a.name = "clang-format"
    THEN <<<<"git-clang-format">>, <<"--diff">>, <<a_args.start_rev>>,
           <<a_args.end_rev>>, <<"--">>>> \o files
    ELSE <<<<"darker">>, <<"--check">>, <<"--diff">>, <<"-r">>,
           <<a_args.start_rev, "..", a_args.end_rev>>>> \o files

instructions(a, a_args, files) == Join(format_cmd(a, a_args, files))

\* What format_run returns for a subprocess that exited with rc and wrote out.
format_result(rc, out) == IF rc = 1 THEN Some(out) ELSE None

pr_comment_text(a, instr, d) ==
    <<"\n">> \o comment_tag(a.name)
    \o <<"\n", "\n", ":warning: ", a.friendly_name, ", ", a.name,
         " found issues in your code. :warning:", "\n", "\n",
         "<details>", "\n", "<summary>", "\n",
         "You can test this locally with the following command:", "\n",
         "</summary>", "\n", "\n">>
    \o Fence \o <<"bash", "\n">> \o instr \o <<"\n">> \o Fence
    \o <<"\n", "\n", "</details>", "\n", "\n", "<details>", "\n", "<summary>", "\n",
         "View the diff from ", a.name, " here.", "\n", "</summary>", "\n", "\n">>
    \o Fence \o DiffWord \o <<"\n">> \o d \o <<"\n">> \o Fence
    \o <<"\n", "\n", "</details>", "\n", "\n",
         "- [ ] Check this box to apply formatting changes to this branch.">>

success_text(a) ==
    <<"\n">> \o comment_tag(a.name)
    \o <<"\n", ":white_check_mark: With the latest revision this PR passed the ",
         a.friendly_name, ".", "\n">>

\* find_comment: the position of the first comment whose body contains the
\* adapter's comment_tag, or None.
find_comment(name, cs) ==
    LET hits == {k \in 1..Len(cs) : Contains(cs[k], comment_tag(name))}
    IN  IF hits = {} THEN None ELSE Some(SetMin(hits))

\* re.match(format_pat, body).group("FMT"), or None: the body must begin
\* with the tag prefix; FMT is one or more characters other than a newline,
\* taken greedily up to the last "-->" that can still be reached.
format_pat(body) ==
    IF ~StartsAt(body, <<TagPrefix>>, 1) THEN None
    ELSE LET ends == {j \in 3..Len(body) :
                         /\ body[j] = TagSuffix
                         /\ \A k \in 2..(j - 1) : body[k] # "\n"}
         IN  IF ends = {} THEN None ELSE Some(SubSeq(body, 2, SetMax(ends) - 1))

\* type=bool of argparse: bool(text) of the option's text.
parse_bool(text) == text # ""

HasAttr(obj, attr) == attr \in DOMAIN obj

\* The PullRequest object FormatRunner keeps in self.pr.
PullRequest == [head |-> pr.head, number |-> 1]

\* -------------------------------------------- format-helper: the script

apply_diff_cmds ==
    [remote_cmd   |-> <<"git", "remote", "add", "pr", pr.head.repo.html_url>>,
     fetch_cmd    |-> <<"git", "fetch", "pr", pr.head.ref>>,
     checkout_cmd |-> <<"git", "checkout", pr.head.ref>>,
     apply_cmd    |-> <<"git", "apply", TmpName>>,
     add_cmd      |-> <<"git", "add", ".">>]

apply_diff_order ==
    <<"remote_cmd", "fetch_cmd", "checkout_cmd", "apply_cmd", "add_cmd">>

\* An exception nobody catches ends the process with status 1.
Raise(kind) ==
    /\ pc' = "raised"
    /\ raised' = kind
    /\ status' = 1

\* FormatHelper.run returns v: to FormatRunner.run's loop, which sets
\* exit_code = 1 for a false value and goes on with the next adapter, or to
\* the caller that called the method directly.
Return(v) ==
    /\ returned' = Append(returned, [name |-> self, value |-> v])
    /\ UNCHANGED raised
    /\ IF entry = "__main__"
       THEN /\ pc' = "FormatRunner.run"
            /\ exit_code' = IF ~v THEN 1 ELSE exit_code
            /\ fmtIdx' = fmtIdx + 1
            /\ UNCHANGED status
       ELSE /\ pc' = "end"
            /\ status' = 0
            /\ UNCHANGED <<exit_code, fmtIdx>>

\* FormatRunner.__init__
FormatRunner_init ==
    /\ tool = "code-format-helper"
    /\ pc = "FormatRunner.__init__"
    /\ IF args.comment_id # None
       THEN LET m == format_pat(comments[args.comment_id[1]])
            IN  IF m = None
                THEN Raise("Exception: Could not find format") /\ UNCHANGED formatters
                ELSE IF m[1] = <<"clang-format">>
                THEN /\ formatters' = [iterable |-> FALSE, items |-> <<"clang-format">>]
                     /\ pc' = "FormatRunner.run"
                     /\ UNCHANGED <<raised, status>>
                ELSE IF m[1] = <<"darker">>
                THEN /\ formatters' = [iterable |-> FALSE, items |-> <<"darker">>]
                     /\ pc' = "FormatRunner.run"
                     /\ UNCHANGED <<raised, status>>
                ELSE Raise("Exception: Unknown format") /\ UNCHANGED formatters
       ELSE /\ formatters' = [iterable |-> TRUE, items |-> ALL_FORMATTERS]
            /\ pc' = "FormatRunner.run"
            /\ UNCHANGED <<raised, status>>
    /\ UNCHANGED <<tool, env, entry, args, comments, comments0, gitLog, wc, diff, tmp,
                   changed_files, fmtIdx, exit_code, self, run_args, procLog,
                   apiLog, found, returned>>

\* FormatRunner.run: the head of the for loop, the call fmt.run(
\* self.changed_files, self.pr), and sys.exit(exit_code) after the loop.
\* (ClangFormatHelper()) is the object, not a tuple: iterating it raises.
FormatRunner_run ==
    /\ tool = "code-format-helper"
    /\ pc = "FormatRunner.run"
    /\ IF ~formatters.iterable
       THEN Raise("TypeError: object is not iterable")
            /\ UNCHANGED <<self, run_args>>
       ELSE IF fmtIdx > Len(formatters.items)
       THEN /\ pc' = "end"
            /\ status' = exit_code
            /\ UNCHANGED <<raised, self, run_args>>
       ELSE /\ self' = formatters.items[fmtIdx]
            /\ run_args' = PullRequest
            /\ pc' = "format_run"
            /\ UNCHANGED <<raised, status>>
    /\ UNCHANGED <<tool, env, entry, args, comments, comments0, gitLog, wc, diff, tmp,
                   changed_files, formatters, fmtIdx, exit_code, procLog,
                   apiLog, found, returned>>

\* FormatHelper.run, line 165: diff = self.format_run(changed_files, args).
FormatHelper_format_run ==
    /\ tool = "code-format-helper"
    /\ pc = "format_run"
    /\ LET a == Adapter(self)
           files == filter_changed_files(a, changed_files)
       IN  IF files = <<>>
           THEN /\ diff' = None
                /\ pc' = "get_repo"
                /\ UNCHANGED <<raised, status, procLog>>
           ELSE IF ~(HasAttr(run_args, "start_rev") /\ HasAttr(run_args, "end_rev"))
           THEN Raise("AttributeError") /\ UNCHANGED <<diff, procLog>>
           ELSE LET proc == env[self]
                IN  /\ procLog' = Append(procLog,
                           [name |-> self, cmd |-> format_cmd(a, run_args, files),
                            returncode |-> proc.returncode, stdout |-> proc.stdout])
                    /\ diff' = format_result(proc.returncode, proc.stdout)
                    /\ pc' = "get_repo"
                    /\ UNCHANGED <<raised, status>>
    /\ UNCHANGED <<tool, env, entry, args, comments, comments0, gitLog, wc, tmp,
                   changed_files, formatters, fmtIdx, exit_code, self, run_args,
                   apiLog, found, returned>>

\* FormatHelper.run, lines 167-174: the repository lookup and the branch
\* on diff and args.apply_diff.
FormatHelper_branch ==
    /\ tool = "code-format-helper"
    /\ pc = "get_repo"
    /\ IF ~(HasAttr(run_args, "token") /\ HasAttr(run_args, "repo")
            /\ HasAttr(run_args, "issue_number"))
       THEN Raise("AttributeError")
       ELSE /\ UNCHANGED <<raised, status>>
            /\ pc' = IF Truthy(diff)
                     THEN IF ~run_args.apply_diff THEN "update_pr" ELSE "remote_cmd"
                     ELSE "update_pr_success"
    /\ UNCHANGED <<tool, env, entry, args, comments, comments0, gitLog, wc, diff, tmp,
                   changed_files, formatters, fmtIdx, exit_code, self, run_args,
                   procLog, apiLog, found, returned>>

\* update_pr(diff, pr) and return False.
FormatHelper_update_pr ==
    /\ tool = "code-format-helper"
    /\ pc = "update_pr"
    /\ LET a == Adapter(self)
           existing_comment == find_comment(self, comments)
           files == filter_changed_files(a, changed_files)
           pr_text == pr_comment_text(a, instructions(a, run_args, files), diff[1])
       IN  /\ found' = Append(found, [name |-> self, at |-> existing_comment,
                                      among |-> comments])
           /\ IF existing_comment # None
              THEN /\ comments' = [comments EXCEPT ![existing_comment[1]] = pr_text]
                   /\ apiLog' = Append(apiLog, [op |-> "edit", name |-> self,
                                                at |-> existing_comment[1],
                                                text |-> "found issues"])
              ELSE /\ comments' = Append(comments, pr_text)
                   /\ apiLog' = Append(apiLog, [op |-> "create", name |-> self,
                                                at |-> Len(comments) + 1,
                                                text |-> "found issues"])
    /\ Return(FALSE)
    /\ UNCHANGED <<tool, env, entry, args, comments0, gitLog, wc, diff, tmp, changed_files,
                   formatters, self, run_args, procLog>>

\* One subprocess.run of apply_diff with its returncode test.  Before git
\* apply the diff is forced to LF line endings and written to tmp.
apply_diff_step ==
    /\ tool = "code-format-helper"
    /\ pc \in DOMAIN apply_diff_cmds
    /\ \E rc \in ReturnCodes :
        LET argv == apply_diff_cmds[pc]
            nxt == AfterStep(rc, Following(apply_diff_order, pc))
        IN  /\ gitLog' = Append(gitLog, [argv |-> argv, rc |-> rc])
            /\ wc' = GitEffect(argv, rc, wc)
            /\ tmp' = IF pc = "apply_cmd" THEN Some(force_lf(diff[1])) ELSE tmp
            /\ pc' = IF nxt = "end" THEN "update_pr_success" ELSE nxt
            /\ raised' = IF nxt = "raised" THEN RaiseOfStr ELSE raised
            /\ status' = IF nxt = "raised" THEN 1 ELSE status
    /\ UNCHANGED <<tool, env, entry, args, comments, diff>>
    /\ UNCHANGED helperVars

\* update_pr_success(pr) and return True.
FormatHelper_update_pr_success ==
    /\ tool = "code-format-helper"
    /\ pc = "update_pr_success"
    /\ LET a == Adapter(self)
           existing_comment == find_comment(self, comments)
       IN  /\ found' = Append(found, [name |-> self, at |-> existing_comment,
                                      among |-> comments])
           /\ IF existing_comment # None
              THEN /\ comments' = [comments EXCEPT ![existing_comment[1]] = success_text(a)]
                   /\ apiLog' = Append(apiLog, [op |-> "edit", name |-> self,
                                                at |-> existing_comment[1],
                                                text |-> "success"])
              ELSE UNCHANGED <<comments, apiLog>>
    /\ Return(TRUE)
    /\ UNCHANGED <<tool, env, entry, args, comments0, gitLog, wc, diff, tmp, changed_files,
                   formatters, self, run_args, procLog>>

\* ------------------------------------------------------------ the inputs

Segments == {Fence, <<Backtick>>, DiffWord, CR, LF, <<"x">>}

RECURSIVE SegSeqs(_)
SegSeqs(n) ==
    IF n = 0 THEN {<<>>}
    ELSE LET shorter == SegSeqs(n - 1)
         IN  shorter \cup {Append(s, g) : s \in {t \in shorter : Len(t) = n - 1},
                                         g \in Segments}

\* What a formatter's standard output may hold.
DiffText == <<"@@ -1 +1 @@", "\r", "\n", "-int  x;", "\n", "+int x;", "\n">>

\* The diff of a Markdown file, a fence among its lines.
DiffTextMd == <<"@@ -1 +1 @@", "\r", "\n", "+">> \o Fence \o <<"\r", "\n">>

BaseArgs == [token |-> "t", repo |-> "llvm/llvm-project", issue_number |-> 1,
             start_rev |-> "HEAD~1", end_rev |-> "HEAD"]

\* Comment bodies the diff-apply tool is pointed at: every text of at most
\* MaxSegs segments, and a comment the format-helper wrote.
Bodies ==
    {Cat(s) : s \in SegSeqs(MaxSegs)}
    \cup {pr_comment_text(ClangFormatHelper,
                          instructions(ClangFormatHelper, BaseArgs, <<<<"a", ".cpp">>>>),
                          DiffText),
          pr_comment_text(ClangFormatHelper,
                          instructions(ClangFormatHelper, BaseArgs, <<<<"a", ".cpp">>>>),
                          DiffTextMd)}

FileLists ==
    {<<>>,
     <<<<"a", ".cpp">>>>,
     <<<<"a", ".cpp">>, <<"b", ".py">>, <<"c", ".h">>, <<"d", ".txt">>>>}

\* (returncode, stdout) of a formatter subprocess.
Outcomes ==
    {[returncode |-> 0, stdout |-> <<>>],
     [returncode |-> 1, stdout |-> DiffText],
     [returncode |-> 1, stdout |-> <<>>],
     [returncode |-> 2, stdout |-> <<>>]}

AdapterNames == {"darker", "clang-format"}

\* A formatter that finds nothing to change.
Quiet == [returncode |-> 0, stdout |-> <<>>]

\* Comments on the pull request before the format-helper first runs:
\* none, a plain remark, and comments that begin with a tag.
InitialComments ==
    {<<>>,
     <<<<"LGTM">>>>,
     <<<<TagPrefix, "clang-format", TagSuffix, "\n", "please reformat">>>>,
     <<<<TagPrefix, "{", "darker", "}", TagSuffix>>>>,
     <<<<TagPrefix, "rustfmt", TagSuffix>>>>}

NoFormatters == [iterable |-> TRUE, items |-> <<>>]

Fresh ==
    /\ gitLog = <<>>
    /\ wc = CleanCopy
    /\ raised = "none"
    /\ status = -1
    /\ diff = None
    /\ tmp = None
    /\ formatters = NoFormatters
    /\ fmtIdx = 1
    /\ exit_code = 0
    /\ procLog = <<>>
    /\ apiLog = <<>>
    /\ found = <<>>
    /\ returned = <<>>

InitApply ==
    /\ tool = "code-format-diff-apply"
    /\ entry = "apply_patches"
    /\ pc = "remote_cmd"
    /\ args = [comment_id |-> 1, issue_number |-> 1]
    /\ \E b \in Bodies : comments = <<b>>
    /\ comments0 = comments
    /\ env = [n \in AdapterNames |-> Quiet]
    /\ changed_files = <<>>
    /\ self = "none"
    /\ run_args = BaseArgs
    /\ Fresh

InitHelper ==
    /\ tool = "code-format-helper"
    /\ entry = "none"
    /\ pc = "start"
    /\ args = BaseArgs
    /\ comments \in InitialComments
    /\ comments0 = comments
    /\ env = [n \in AdapterNames |-> Quiet]
    /\ changed_files = <<>>
    /\ self = "none"
    /\ run_args = BaseArgs
    /\ Fresh

Init == InitApply \/ InitHelper

\* A new process on a fresh checkout: everything but the pull request's
\* comments starts anew.
Reset ==
    /\ gitLog' = <<>>
    /\ wc' = CleanCopy
    /\ raised' = "none"
    /\ status' = -1
    /\ diff' = None
    /\ tmp' = None
    /\ formatters' = NoFormatters
    /\ fmtIdx' = 1
    /\ exit_code' = 0
    /\ procLog' = <<>>
    /\ apiLog' = <<>>
    /\ found' = <<>>
    /\ returned' = <<>>

\* The script run from the command line: argparse, the split of
\* --changed-files, and FormatRunner(changed_files, args).
main ==
    /\ tool = "code-format-helper"
    /\ pc = "start"
    /\ \E files \in FileLists, text \in {"false", "true", ""},
          cid \in {None} \cup {Some(k) : k \in 1..Len(comments)},
          e \in [AdapterNames -> Outcomes] :
        /\ args' = BaseArgs @@
                   [apply_diff |-> parse_bool(text), argv_apply_diff |-> text,
                    comment_id |-> cid]
        /\ changed_files' = files
        /\ env' = e
    /\ entry' = "__main__"
    /\ pc' = "FormatRunner.__init__"
    /\ self' = "none"
    /\ run_args' = BaseArgs
    /\ Reset
    /\ UNCHANGED <<tool, comments, comments0>>

\* FormatHelper.run(changed_files, args) called on an adapter with an
\* argparse namespace, as its signature asks.
call_run ==
    /\ tool = "code-format-helper"
    /\ pc = "start"
    /\ \E files \in FileLists, apply \in BOOLEAN, name \in AdapterNames,
          o \in Outcomes :
        /\ run_args' = BaseArgs @@ [apply_diff |-> apply, comment_id |-> None]
        /\ changed_files' = files
        /\ self' = name
        /\ env' = [n \in AdapterNames |-> IF n = name THEN o ELSE Quiet]
    /\ args' = run_args'
    /\ entry' = "FormatHelper.run"
    /\ pc' = "format_run"
    /\ Reset
    /\ UNCHANGED <<tool, comments, comments0>>

\* The process has ended and its checkout is discarded; the pull request
\* and its comments remain for the next invocation.
process_end ==
    /\ tool = "code-format-helper"
    /\ pc \in {"end", "raised"}
    /\ pc' = "start"
    /\ entry' = "none"
    /\ args' = BaseArgs
    /\ env' = [n \in AdapterNames |-> Quiet]
    /\ changed_files' = <<>>
    /\ self' = "none"
    /\ run_args' = BaseArgs
    /\ Reset
    /\ UNCHANGED <<tool, comments, comments0>>

Next ==
    \/ apply_patches_step
    \/ apply_patches_comment
    \/ main
    \/ call_run
    \/ FormatRunner_init
    \/ FormatRunner_run
    \/ FormatHelper_format_run
    \/ FormatHelper_branch
    \/ FormatHelper_update_pr
    \/ apply_diff_step
    \/ FormatHelper_update_pr_success
    \/ process_end

Spec == Init /\ [][Next]_vars

\* ------------------------------------------------------------ the claims

Ended == pc \in {"end", "raised"}

InApply == tool = "code-format-diff-apply"

InHelper == tool = "code-format-helper"

\* The tag as the specification writes it: <!--LLVM CODE FORMAT COMMENT: N-->
SpecTag(name) == <<TagPrefix, name, TagSuffix>>

Opener == Fence \o DiffWord

AllZero(log) == \A k \in 1..Len(log) : log[k].rc = 0

\* The body holds no opening diff marker that a fence follows after at
\* least one character.
NoBlock(body) ==
    \A i \in 1..Len(body) :
        StartsAt(body, Opener, i)
            => \A j \in (i + Len(Opener) + 1)..Len(body) : ~StartsAt(body, Fence, j)

GitNames == {gitLog[k].argv[2] : k \in 1..Len(gitLog)}

C2_EndToEnd ==
    (/\ InHelper
     /\ entry = "__main__"
     /\ Ended
     /\ args.argv_apply_diff = "false"
     /\ args.comment_id = None
     /\ \A k \in 1..Len(comments0) : TagPrefix \notin Range(comments0[k]))
        => LET needs(n) ==
                   /\ filter_changed_files(Adapter(n), changed_files) # <<>>
                   /\ env[n].returncode = 1
                   /\ env[n].stdout # <<>>
               tagged == {k \in 1..Len(comments) :
                              Contains(comments[k], SpecTag("clang-format"))}
           IN  /\ needs("clang-format")
                    => Cardinality(tagged) = 1 /\ status = 1
               /\ (~needs("clang-format") /\ ~needs("darker"))
                    => /\ status = 0
                       /\ Cardinality(tagged) <= 1
                       /\ \A k \in tagged :
                              Contains(comments[k], <<":white_check_mark: With the latest revision this PR passed the ">>)

\* C3: a formatter subprocess that exits 0 gives no diff, one that exits 1
\* gives its standard output as the diff, and any other exit code makes
\* the adapter raise instead of returning.
C3_ExitCodes ==
    (InHelper /\ procLog # <<>>)
        => LET p == procLog[Len(procLog)]
           IN  /\ (p.returncode = 0 /\ pc = "get_repo") => diff = None
               /\ (p.returncode = 1 /\ pc = "get_repo") => diff = Some(p.stdout)
               /\ p.returncode \notin {0, 1} => raised # "none"

\* C4: find_comment returns the first comment, in list order, whose body
\* contains <!--LLVM CODE FORMAT COMMENT: N--> for the adapter's name N,
\* and none if no body contains it.
C4_FindComment ==
    InHelper =>
        \A f \in 1..Len(found) :
            LET hits == {k \in 1..Len(found[f].among) :
                             Contains(found[f].among[k], SpecTag(found[f].name))}
            IN  IF hits = {} THEN found[f].at = None
                ELSE /\ found[f].at # None
                     /\ found[f].at[1] \in hits
                     /\ \A k \in hits : found[f].at[1] <= k

\* Every CRLF and every lone CR of raw replaced by one LF, nothing else
\* changed: drop each CR that an LF follows, turn each other CR into LF.
LineFeedsOf(raw) ==
    LET keep == {k \in 1..Len(raw) :
                     ~(raw[k] = "\r" /\ k < Len(raw) /\ raw[k + 1] = "\n")}
        nth(n) == CHOOSE k \in keep : Cardinality({m \in keep : m < k}) = n - 1
    IN  [n \in 1..Cardinality(keep) |->
             IF raw[nth(n)] = "\r" THEN "\n" ELSE raw[nth(n)]]

\* The comment has been fetched and searched.
Searched == InApply /\ Len(gitLog) >= 3 /\ gitLog[3].rc = 0 /\ pc # "get_comment"

FirstFenceAfter(i, body) ==
    SetMin({j \in (i + Len(Opener) + 1)..Len(body) : StartsAt(body, Fence, j)})

LastFenceAfter(i, body) ==
    SetMax({j \in (i + Len(Opener) + 1)..Len(body) : StartsAt(body, Fence, j)})

\* The extraction spoken of in C5, the closing fence being the last fence
\* after the opener (last = TRUE) or the first one after its content.
Extracted(last) ==
    LET body == comments[1]
        opens == {i \in 1..Len(body) : StartsAt(body, Opener, i)}
        closes(i) == {j \in (i + Len(Opener) + 1)..Len(body) : StartsAt(body, Fence, j)}
        blocks == {i \in opens : closes(i) # {}}
    IN  Searched =>
          IF blocks = {}
          THEN diff = None /\ pc = "raised" /\ raised # "none" /\ Len(gitLog) = 3
          ELSE LET i == SetMin(opens)
                   j == IF last THEN LastFenceAfter(i, body) ELSE FirstFenceAfter(i, body)
               IN  /\ diff = Some(SubSeq(body, i + Len(Opener), j - 1))
                   /\ tmp # None =>
                        /\ tmp[1] = LineFeedsOf(diff[1])
                        /\ "\r" \notin Range(tmp[1])
                   /\ (Len(gitLog) >= 4) => tmp # None

\* C5 as stated, for bodies whose runs of backticks are fences of exactly
\* ten: the extracted text is what lies between the opening diff marker
\* and the closing fence of that block, the first fence after it, with CRLF
\* and lone CR replaced by LF; a body without a block fails.
C5_EnclosedText ==
    (InApply /\ ~Contains(comments[1], Fence \o <<Backtick>>)) => Extracted(FALSE)

\* C5 as amended: the extracted text runs from the first opening diff
\* marker to the last fence of ten backticks in the body, with CRLF and
\* lone CR replaced by LF; a body without an opening marker followed, after
\* at least one character, by a fence fails with an error after the three
\* git commands that precede the search.
C5_GreedyText == Extracted(TRUE)

\* A comment written by the format-helper for the diff of a Markdown file:
\* the diff holds a fence and CRLF line ends, and it has been written out.
C5_Witness ==
    /\ InApply
    /\ tmp # None
    /\ Contains(tmp[1], Fence)
    /\ "\r" \in Range(diff[1])
    /\ Len(tmp[1]) < Len(diff[1])

\* Adapter n has issues that this run does not apply.
Outstanding(n) ==
    /\ filter_changed_files(Adapter(n), changed_files) # <<>>
    /\ env[n].returncode = 1
    /\ env[n].stdout # <<>>
    /\ ~args.apply_diff

\* C6: FormatRunner.run runs every selected adapter, and the process exits
\* 1 if some adapter reported issues left unapplied and 0 otherwise.
C6_ExitStatus ==
    (InHelper /\ entry = "__main__" /\ Ended /\ args.comment_id = None)
        => /\ [k \in 1..Len(returned) |-> returned[k].name] = ALL_FORMATTERS
           /\ status = IF \E n \in AdapterNames : Outstanding(n) THEN 1 ELSE 0

\* C7: when the comment holds a fenced diff and every shell step so far
\* exited 0, the working copy holds the diff's changes after the patch
\* step and git add has staged them.
C7_PatchApplied ==
    (InApply /\ diff # None /\ Len(gitLog) >= 5 /\ AllZero(gitLog))
        => wc.patched /\ wc.staged

\* The body is the found-issues comment the tool writes for adapter n.
OwnComment(body, n) ==
    StartsAt(body, <<"\n">> \o comment_tag(n) \o <<"\n", "\n", ":warning: ">>, 1)

\* C8: with --comment-id the one adapter the comment's tag names is
\* selected and run, so for a comment the tool wrote for adapter F that is
\* F; a tag naming no adapter makes construction fail; without
\* --comment-id every adapter of the fixed list is run.
C8_Selection ==
    (InHelper /\ entry = "__main__" /\ Ended)
        => LET ran == [k \in 1..Len(returned) |-> returned[k].name]
           IN  IF args.comment_id = None THEN ran = ALL_FORMATTERS
               ELSE LET body == comments[args.comment_id[1]]
                    IN  /\ \A n \in AdapterNames :
                              (Contains(body, SpecTag(n)) \/ OwnComment(body, n))
                                  => ran = <<n>>
                        /\ Contains(body, SpecTag("rustfmt")) => raised # "none"

\* C9: when FormatHelper.run has a diff and direct apply was requested,
\* the success comment is posted only after the diff has been applied and
\* pushed to the head branch, and not at all if an apply step failed.
C9_ApplyThenSuccess ==
    (InHelper /\ entry = "FormatHelper.run" /\ Truthy(diff) /\ run_args.apply_diff)
        => LET posted == \E k \in 1..Len(apiLog) : apiLog[k].text = "success"
           IN  /\ posted => (wc.patched /\ wc.staged /\ wc.pushed)
               /\ ~AllZero(gitLog) => ~posted

\* C10: in both tools the shell steps run in the order remote add, fetch,
\* checkout, apply, add (then commit, push in the diff-apply tool), each at
\* most once and only after every earlier step exited 0; a step that exits
\* non-zero raises, and no step follows it.
C10_FailFast ==
    LET steps == IF InApply
                 THEN <<"remote", "fetch", "checkout", "apply", "add", "commit", "push">>
                 ELSE <<"remote", "fetch", "checkout", "apply", "add">>
    IN  /\ Len(gitLog) <= Len(steps)
        /\ \A k \in 1..Len(gitLog) : gitLog[k].argv[2] = steps[k]
        /\ \A k \in 1..(Len(gitLog) - 1) : gitLog[k].rc = 0
        /\ (gitLog # <<>> /\ gitLog[Len(gitLog)].rc # 0)
              => pc = "raised" /\ raised # "none"

\* git commit failed in the diff-apply tool after five steps that passed.
C10_Witness ==
    /\ InApply
    /\ Len(gitLog) = 6
    /\ gitLog[6].rc # 0
    /\ pc = "raised"

====
